---- MODULE Spec2Model ----
(***************************************************************************)
(* Event deduplication, merge and windowed retrieval of the space-weather  *)
(* report generator: the flare store of SimpleFlareTracker                 *)
(* (flare_tracker_simple.py) and the CME store of EnhancedCMETracker       *)
(* (cme_tracker_enhanced.py).                                              *)
(*                                                                         *)
(* Times are seconds.  A day is 86400 seconds; event_date is the day       *)
(* number of a timestamp, event_time ("HH:MM") the minute of the day,      *)
(* peak_time and end_time ("HH:MM:SS") the second of the day.  A flare     *)
(* class "M1.4" is the record [letter |-> "M", mag |-> 14], the magnitude  *)
(* in tenths.                                                              *)
(***************************************************************************)
EXTENDS Integers, Sequences, FiniteSets, TLC

VARIABLES
    flares,        \* rows of table flares (flare_database.db)
    nextFlareId,   \* AUTOINCREMENT counter of flares.id
    now,           \* the wall clock, whole seconds
    last,          \* what the latest operation was given and what it did
    steps,         \* operations run so far
    cmedb,         \* space_weather.db: the four CME tables and their id counters
    strhash,       \* hash() of this process: time21_5 -> analysis_id
    latest,        \* per activityID, the payload of the latest store_cme
    reader,        \* a query running beside the writer: its position and rows
    leaked,        \* a connection of store_cme left open with its INSERT uncommitted
    cycles         \* per process, its position inside a store_flares running now

flareVars == <<flares, nextFlareId, now>>

\* SQL NULL / Python None in an integer or time column
NULL == -1
\* SQL NULL / Python None in a text column (region, location)
None == "None"

\* number of operations explored in one behaviour
MaxSteps == 3

SecondsPerDay == 24 * 60 * 60

----------------------------------------------------------------------------
(* Python truthiness of the optional fields *)

\* flare.get('event_timestamp'): an integer, falsy when None or 0
IsSet(n) == n # NULL /\ n # 0
\* a time string ("HH:MM", "HH:MM:SS"), held as a number: falsy when None
HasTime(t) == t # NULL
\* a text field: falsy when None or empty
HasText(s) == s # None /\ s # ""

Abs(n) == IF n < 0 THEN 0 - n ELSE n

----------------------------------------------------------------------------
(* Conversions *)

\* event_dt.strftime("%Y-%m-%d") of a timestamp: its UTC day
DateOf(ts) == ts \div SecondsPerDay
\* event_dt.strftime("%H:%M") of a timestamp: its minute of the day
HHMM(ts) == (ts % SecondsPerDay) \div 60
\* strptime(f"{event_date} {peak}", "%Y-%m-%d %H:%M:%S") as a UTC timestamp
PeakTimestamp(date, peak) == date * SecondsPerDay + peak

----------------------------------------------------------------------------
(* Magnitude tolerance band, in IEEE-754 doubles as Python computes it.     *)
(* magnitude_min = magnitude - 0.2 and magnitude_max = magnitude + 0.2 are  *)
(* rounded; for one-decimal magnitudes 0.1 .. 9.9 the rounded bound misses  *)
(* the decimal two tenths away exactly for the magnitudes listed here.      *)

\* m (tenths) with float(m/10) - 0.2 > float((m-2)/10), e.g. 1.6 - 0.2 > 1.4
SubRoundsUp == {8, 11, 16, 21, 83, 84, 88, 89, 93, 94, 98, 99}
\* m (tenths) with float(m/10) + 0.2 < float((m+2)/10), e.g. 1.4 + 0.2 < 1.6
AddRoundsDown == {7, 14, 81, 82, 86, 87, 91, 92, 96, 97}

\* magnitude_min <= ex_magnitude <= magnitude_max
InBand(m, e) ==
    /\ (m - 2 < e \/ (m - 2 = e /\ m \notin SubRoundsUp))
    /\ (e < m + 2 \/ (e = m + 2 /\ m \notin AddRoundsDown))

\* (mutant) the gate without the comparison of the class letters
MagnitudeGate_NoLetter(flare, ex) ==
    InBand(flare.flare_class.mag, ex.flare_class.mag)

\* the magnitude gate of one existing row against the incoming flare
MagnitudeGate(flare, ex) ==
    /\ ex.flare_class.letter = flare.flare_class.letter
    /\ InBand(flare.flare_class.mag, ex.flare_class.mag)

----------------------------------------------------------------------------
(* Duplicate detection of store_flares: one incoming flare against one     *)
(* existing row that passed the magnitude gate.                            *)

\* "Match by start timestamp (within 5 minutes for exact matches)"
StartWindow == 300
\* "NOAA time should match LMSAL peak time within 2 minutes"
PeakWindow == 120
\* "Match if peak times are within 1 minute"
PeakPeakWindow == 60
\* "30 min for location match"
LocationWindow == 1800

TimestampMatch(flare, ex) ==
    /\ flare.event_timestamp # NULL
    /\ ex.event_timestamp # NULL
    /\ Abs(flare.event_timestamp - ex.event_timestamp) <= StartWindow

NoaaVsLmsalPeak(flare, source, ex) ==
    /\ source = "NOAA" /\ IsSet(flare.event_timestamp)
    /\ ex.source = "LMSAL" /\ HasTime(ex.peak_time)
    /\ Abs(flare.event_timestamp - PeakTimestamp(flare.event_date, ex.peak_time))
          <= PeakWindow

LmsalPeakVsNoaa(flare, source, ex) ==
    /\ source = "LMSAL" /\ HasTime(flare.peak_time)
    /\ ex.source = "NOAA" /\ IsSet(ex.event_timestamp)
    /\ Abs(PeakTimestamp(flare.event_date, flare.peak_time) - ex.event_timestamp)
          <= PeakWindow

LmsalPeakVsPeak(flare, source, ex) ==
    /\ source = "LMSAL" /\ ex.source = "LMSAL"
    /\ HasTime(flare.peak_time) /\ HasTime(ex.peak_time)
    /\ Abs(PeakTimestamp(flare.event_date, flare.peak_time)
            - PeakTimestamp(flare.event_date, ex.peak_time)) <= PeakPeakWindow

LocationMatch(flare, ex) ==
    /\ HasText(flare.location) /\ HasText(ex.location)
    /\ flare.location = ex.location
    /\ IsSet(flare.event_timestamp) /\ IsSet(ex.event_timestamp)
    /\ Abs(flare.event_timestamp - ex.event_timestamp) <= LocationWindow

\* (mutant) the location criterion tried before the others
MatchPred_LocationFirst(flare, source, ex) ==
    IF LocationMatch(flare, ex) THEN 5
    ELSE IF TimestampMatch(flare, ex) THEN 1
    ELSE IF NoaaVsLmsalPeak(flare, source, ex) THEN 2
    ELSE IF LmsalPeakVsNoaa(flare, source, ex) THEN 3
    ELSE IF LmsalPeakVsPeak(flare, source, ex) THEN 4
    ELSE 0

\* The chain "if ...: match_found = True", "if not match_found and ...": the
\* number of the first criterion that sets match_found, 0 when none does.
MatchPred(flare, source, ex) ==
    IF TimestampMatch(flare, ex) THEN 1
    ELSE IF NoaaVsLmsalPeak(flare, source, ex) THEN 2
    ELSE IF LmsalPeakVsNoaa(flare, source, ex) THEN 3
    ELSE IF LmsalPeakVsPeak(flare, source, ex) THEN 4
    ELSE IF LocationMatch(flare, ex) THEN 5
    ELSE 0

\* SELECT ... FROM flares WHERE event_date = ?
ExistingCandidates(rows, flare) == {r \in rows : r.event_date = flare.event_date}

\* one iteration of "for candidate in existing_candidates" reaches match_found
CandidateMatches(flare, source, ex) ==
    /\ MagnitudeGate(flare, ex)
    /\ MatchPred(flare, source, ex) # 0

\* ORDER BY event_timestamp DESC and "existing = candidate; break": the rows
\* the loop can stop at.  NULL sorts last under DESC; the order of rows with
\* equal event_timestamp is not fixed by the query.
FirstMatches(rows, flare, source) ==
    LET cands == ExistingCandidates(rows, flare)
        hits == {r \in cands : CandidateMatches(flare, source, r)}
    IN  {r \in hits : \A r2 \in hits : r2.event_timestamp <= r.event_timestamp}

----------------------------------------------------------------------------
(* Field-level merge of store_flares ("if existing:") *)

\* prefer_incoming = (source == 'LMSAL' and ex_source == 'NOAA')
PreferIncoming(source, ex) == source = "LMSAL" /\ ex.source = "NOAA"

\* the keys of the dict "updates"
UpdatesClass(flare, source, ex) ==
    PreferIncoming(source, ex) /\ flare.flare_class # ex.flare_class
\* (mutant) the region of a preferred flare written even when it has none
UpdatesRegion_Blind(flare, source, ex) ==
    PreferIncoming(source, ex) \/ (HasText(flare.region) /\ ~HasText(ex.region))
\* (mutant) region filled only where the row has none, also for LMSAL over
\* NOAA
UpdatesRegion_OnlyMissing(flare, source, ex) ==
    HasText(flare.region) /\ ~HasText(ex.region)
UpdatesRegion(flare, source, ex) ==
    HasText(flare.region) /\ (~HasText(ex.region) \/ PreferIncoming(source, ex))
UpdatesLocation(flare, source, ex) ==
    HasText(flare.location) /\ (~HasText(ex.location) \/ PreferIncoming(source, ex))
UpdatesEventTime(flare, source, ex) ==
    HasTime(flare.event_time) /\ (~HasTime(ex.event_time) \/ PreferIncoming(source, ex))
UpdatesEventTimestamp(flare, source, ex) ==
    UpdatesEventTime(flare, source, ex) /\ IsSet(flare.event_timestamp)
UpdatesPeak(flare, source, ex) ==
    HasTime(flare.peak_time) /\ (~HasTime(ex.peak_time) \/ PreferIncoming(source, ex))
UpdatesEnd(flare, source, ex) ==
    HasTime(flare.end_time) /\ (~HasTime(ex.end_time) \/ PreferIncoming(source, ex))

ShouldUpdate(flare, source, ex) ==
    \/ UpdatesClass(flare, source, ex)
    \/ UpdatesRegion(flare, source, ex)
    \/ UpdatesLocation(flare, source, ex)
    \/ UpdatesEventTime(flare, source, ex)
    \/ UpdatesPeak(flare, source, ex)
    \/ UpdatesEnd(flare, source, ex)
    \/ PreferIncoming(source, ex)

\* (mutant) the UPDATE, with scraped_at, run for every match
MergedRow_AlwaysStamped(flare, source, ex, scraped_at) ==
    [ex EXCEPT
       !.flare_class = IF UpdatesClass(flare, source, ex) THEN flare.flare_class ELSE @,
       !.region = IF UpdatesRegion(flare, source, ex) THEN flare.region ELSE @,
       !.location = IF UpdatesLocation(flare, source, ex) THEN flare.location ELSE @,
       !.event_time = IF UpdatesEventTime(flare, source, ex)
                      THEN flare.event_time ELSE @,
       !.event_timestamp = IF UpdatesEventTimestamp(flare, source, ex)
                           THEN flare.event_timestamp ELSE @,
       !.peak_time = IF UpdatesPeak(flare, source, ex) THEN flare.peak_time ELSE @,
       !.end_time = IF UpdatesEnd(flare, source, ex) THEN flare.end_time ELSE @,
       !.source = IF PreferIncoming(source, ex) THEN source ELSE @,
       !.scraped_at = scraped_at]

\* UPDATE flares SET <updates>, scraped_at = ? WHERE id = ?  -- the row after it
MergedRow(flare, source, ex, scraped_at) ==
    IF ~ShouldUpdate(flare, source, ex) THEN ex
    ELSE [ex EXCEPT
            !.flare_class = IF UpdatesClass(flare, source, ex)
                            THEN flare.flare_class ELSE @,
            !.region = IF UpdatesRegion(flare, source, ex) THEN flare.region ELSE @,
            !.location = IF UpdatesLocation(flare, source, ex)
                         THEN flare.location ELSE @,
            !.event_time = IF UpdatesEventTime(flare, source, ex)
                           THEN flare.event_time ELSE @,
            !.event_timestamp = IF UpdatesEventTimestamp(flare, source, ex)
                                THEN flare.event_timestamp ELSE @,
            !.peak_time = IF UpdatesPeak(flare, source, ex) THEN flare.peak_time ELSE @,
            !.end_time = IF UpdatesEnd(flare, source, ex) THEN flare.end_time ELSE @,
            !.source = IF PreferIncoming(source, ex) THEN source ELSE @,
            !.scraped_at = scraped_at]

\* INSERT INTO flares (...) VALUES (...)  -- the new row
InsertedRow(flare, source, id, scraped_at) ==
    [id |-> id,
     event_date |-> flare.event_date,
     event_time |-> flare.event_time,
     event_timestamp |-> flare.event_timestamp,
     flare_class |-> flare.flare_class,
     region |-> flare.region,
     location |-> flare.location,
     peak_time |-> flare.peak_time,
     end_time |-> flare.end_time,
     scraped_at |-> scraped_at,
     source |-> source,
     raw_text |-> flare.raw_text]

\* "no row": the target of a log entry whose flare was inserted
NoRow == [id |-> 0]

\* The body of "for flare in flares" for one flare.  db is the connection's
\* view: rows, the id counter, new_count, and a log of what was done to each
\* flare (the flare, the row matched as it was, the row as it is afterwards,
\* the number of the criterion that matched).
StoreOne(db, flare, source, scraped_at) ==
    LET existing == FirstMatches(db.rows, flare, source)
    IN  IF existing # {}
        THEN {[db EXCEPT
                 !.rows = (@ \ {ex}) \cup {MergedRow(flare, source, ex, scraped_at)},
                 !.log = Append(@, [flare |-> flare, target |-> ex,
                                    result |-> MergedRow(flare, source, ex, scraped_at),
                                    pred |-> MatchPred(flare, source, ex)])]
              : ex \in existing}
        ELSE {[db EXCEPT
                 !.rows = @ \cup {InsertedRow(flare, source, db.nextId, scraped_at)},
                 !.nextId = @ + 1,
                 !.new_count = @ + 1,
                 !.log = Append(@, [flare |-> flare, target |-> NoRow,
                                    result |-> InsertedRow(flare, source, db.nextId,
                                                           scraped_at),
                                    pred |-> 0])]}

\* "for flare in flares: ..." over the whole batch, then commit
RECURSIVE StoreBatch(_, _, _, _)
StoreBatch(db, batch, source, scraped_at) ==
    IF batch = <<>> THEN {db}
    ELSE UNION {StoreBatch(d, Tail(batch), source, scraped_at)
                : d \in StoreOne(db, Head(batch), source, scraped_at)}

\* a datetime is held in milliseconds: the datetime of a whole second
Ms(seconds) == seconds * 1000

\* int(dt.timestamp()) of a datetime held in milliseconds
Timestamp(ms) == ms \div 1000

\* timedelta(hours=h) in milliseconds
HoursMs(h) == h * 3600 * 1000

\* cutoff_timestamp of cleanup_old_flares, clock being datetime.now()
Cutoff(clock, hours) == Timestamp(clock - HoursMs(hours))

\* (mutant) the DELETE without "AND event_timestamp IS NOT NULL", NULL
\* compared as the least value
Expired_NullsToo(rows, cutoff) ==
    {r \in rows : r.event_timestamp < cutoff}

\* DELETE FROM flares WHERE event_timestamp < ? AND event_timestamp IS NOT NULL
Expired(rows, cutoff) ==
    {r \in rows : r.event_timestamp < cutoff /\ r.event_timestamp # NULL}

\* the lists a query may return for the rows S under ORDER BY Key DESC: rows
\* with equal keys come in any order
RECURSIVE Orderings(_)
Orderings(S) ==
    IF S = {} THEN {<<>>}
    ELSE UNION {{<<x>> \o sq : sq \in Orderings(S \ {x})} : x \in S}
\* the rows of DOMAIN key listed by descending key, ties in any order
OrderByDesc(key) ==
    {sq \in Orderings(DOMAIN key) :
        \A i \in 1..(Len(sq) - 1) : key[sq[i]] >= key[sq[i + 1]]}

\* the columns get_flares_for_report_period selects
FlareView(r) ==
    [flare_class |-> r.flare_class, event_date |-> r.event_date,
     event_time |-> r.event_time, peak_time |-> r.peak_time,
     end_time |-> r.end_time, region |-> r.region, location |-> r.location,
     raw_text |-> r.raw_text, event_timestamp |-> r.event_timestamp]
EventTimestamp(r) == r.event_timestamp

\* get_flares_for_report_period: SELECT ... FROM flares WHERE event_timestamp
\* >= ? AND event_timestamp <= ? ORDER BY event_timestamp DESC; a comparison
\* with NULL selects nothing.  The lists it may return.
FlaresForReportPeriod(rows, start_time, end_time) ==
    LET start_ts == Timestamp(start_time)
        end_ts == Timestamp(end_time)
        hit == {r \in rows : /\ r.event_timestamp # NULL
                             /\ r.event_timestamp >= start_ts
                             /\ r.event_timestamp <= end_ts}
    IN  {[i \in 1..Len(sq) |-> FlareView(sq[i])] : sq \in OrderByDesc([r \in hit |-> EventTimestamp(r)])}

----------------------------------------------------------------------------
(* The flares handed to store_flares.  A flare dict has event_date and      *)
(* flare_class; every other key is optional (flare.get).  The shapes are    *)
(* the ones the two parsers build, and dicts that lack optional keys.       *)

Day1 == 1 * SecondsPerDay
Day2 == 2 * SecondsPerDay

\* start timestamps: 01:00:00, 01:05:00, 01:30:00 and 01:30:01 of day 1
T0100 == Day1 + 3600
T0105 == T0100 + 300
T0130 == T0100 + 1800
T0130b == T0130 + 1
\* 23:58:00 of day 1 and 00:02:00 of day 2
T2358 == Day2 - 120
T0002 == Day2 + 120

M12 == [letter |-> "M", mag |-> 12]
M14 == [letter |-> "M", mag |-> 14]
M16 == [letter |-> "M", mag |-> 16]
X14 == [letter |-> "X", mag |-> 14]

Flare(ts, time, class, region, location, peak, end, text) ==
    [event_date |-> IF ts = NULL THEN DateOf(Day1) ELSE DateOf(ts),
     event_time |-> time, event_timestamp |-> ts, flare_class |-> class,
     region |-> region, location |-> location,
     peak_time |-> peak, end_time |-> end, raw_text |-> text]

\* parse_noaa_flares, patterns 1 and 1b: a time, maybe a region
NoaaTimed ==
    {Flare(ts, HHMM(ts), M14, r, None, NULL, NULL, "noaa")
       : ts \in {T0105, T0130}, r \in {None, "4274"}}
    \cup {Flare(ts, HHMM(ts), M12, None, None, NULL, NULL, "noaa")
            : ts \in {T0105, T0130}}
    \cup {Flare(T0105, HHMM(T0105), X14, None, None, NULL, NULL, "noaa")}
    \cup {Flare(ts, HHMM(ts), M14, None, None, NULL, NULL, "noaa")
            : ts \in {T2358, T0002}}
\* parse_noaa_flares, pattern 2: a region and the time of the scrape, no event_time
NoaaRegionOnly ==
    {Flare(T0100, NULL, c, "4275", None, NULL, NULL, "noaa") : c \in {M14}}
\* a dict without event_timestamp
NoaaUntimed ==
    {Flare(NULL, NULL, M14, r, None, NULL, NULL, "noaa") : r \in {None, "4274"}}

\* parse_lmsal_table: start, peak and end always, region and location if
\* listed; M1.4 with each of the details, M1.6 with the two of one location
LmsalDetails ==
    {<<None, "N24E47", 5280, 5700>>,
     <<"4274", "N24E47", 5340, 5760>>,
     <<"4275", "S10W05", 5401, 5760>>}
LmsalRows ==
    {Flare(ts, HHMM(ts), M14, d[1], d[2], d[3], d[4], "lmsal")
       : ts \in {T0100, T0105}, d \in LmsalDetails}
    \cup {Flare(T0100, HHMM(T0100), M16, d[1], d[2], d[3], d[4], "lmsal")
            : d \in {d \in LmsalDetails : d[2] = "N24E47"}}
    \cup {Flare(ts, HHMM(ts), M14, None, "N24E47", 5280, 5700, "lmsal")
            : ts \in {T0130, T0130b}}
\* dicts that lack optional keys
LmsalSparse ==
    {Flare(T0100, NULL, M14, None, None, NULL, NULL, "lmsal"),
     Flare(NULL, NULL, M14, None, "N24E47", 5280, NULL, "lmsal"),
     Flare(NULL, NULL, M16, "4274", None, NULL, NULL, "lmsal")}

NoaaFlares == NoaaTimed \cup NoaaRegionOnly \cup NoaaUntimed
LmsalFlares == LmsalRows \cup LmsalSparse

\* the batches: no flare, or one flare
Batches(source) ==
    LET fs == IF source = "NOAA" THEN NoaaFlares ELSE LmsalFlares
    IN  {<<>>} \cup {<<f>> : f \in fs}

Sources == {"LMSAL", "NOAA"}

\* the second of the clock: 01:10:00 of day 1, and 01:30:00 of day 2
Clock == {T0100 + 600, Day2 + 3600 + 1800}
\* the milliseconds datetime.now() reads within the second
SubSeconds == {0, 500}

----------------------------------------------------------------------------
(* The CME store (EnhancedCMETracker).  A row keeps the columns that        *)
(* identify it and link it; of the descriptive columns, start_timestamp     *)
(* stands for the parent's, and the child rows keep the ones the queries    *)
(* read.  The id counters are the AUTOINCREMENT sequences: an id is never   *)
(* used twice.                                                              *)

EmptyCmeDb ==
    [cmes |-> {}, analyses |-> {}, runs |-> {}, impacts |-> {},
     cmeSeq |-> 0, analysisSeq |-> 0, runSeq |-> 0, impactSeq |-> 0]

\* a time string datetime.fromisoformat rejects (ValueError)
BadTime == -2

\* time21_5 strings of the analyses
MTimes == {"T21a", "T21b"}
\* abs(hash(f"{activity_id}_{analysis_type}_{measurement_time}")) % 1000000:
\* str hashes are salted per process, so the value is fixed inside a process
\* and unrelated across processes.  Only equality of two analysis_id of one
\* activity_id and analysis_type matters (the UNIQUE constraint), so the hash
\* is a table from the time21_5 string; two strings may collide.
StrHashes ==
    {[t \in MTimes |-> IF t = "T21a" THEN 111111 ELSE 222222],
     [t \in MTimes |-> IF t = "T21a" THEN 333333 ELSE 444444],
     [t \in MTimes |-> 555555]}
AnalysisId(hash, activity_id, analysis_type, measurement_time) ==
    hash[measurement_time]

\* INSERT OR REPLACE INTO cme_spacecraft_impacts, for each impact of impactList
RECURSIVE StoreSpacecraftImpacts(_, _, _, _, _)
StoreSpacecraftImpacts(db, model_run_id, analysis_id, activity_id, impactList) ==
    IF impactList = <<>> THEN db
    ELSE StoreSpacecraftImpacts(
            [db EXCEPT
               !.impacts = @ \cup {[id |-> db.impactSeq + 1,
                                    model_run_id |-> model_run_id,
                                    analysis_id |-> analysis_id,
                                    activity_id |-> activity_id,
                                    spacecraft_name |-> Head(impactList)]},
               !.impactSeq = @ + 1],
            model_run_id, analysis_id, activity_id, Tail(impactList))

\* _store_model_run for enlilList[run_number - 1 ..]: INSERT OR REPLACE INTO
\* cme_model_runs, UNIQUE(analysis_id, run_number), then its impacts.  An
\* exception raised before the INSERT (the arrival time does not parse) is
\* caught and logged inside _store_model_run: the run and its impacts are
\* not written and the caller goes on with the next run.
RECURSIVE StoreModelRuns(_, _, _, _, _)
StoreModelRuns(db, analysis_db_id, activity_id, run_number, enlilList) ==
    IF enlilList = <<>> THEN db
    ELSE IF Head(enlilList).arrival = BadTime
    THEN StoreModelRuns(db, analysis_db_id, activity_id, run_number + 1,
                        Tail(enlilList))
    ELSE LET enlil == Head(enlilList)
             replaced == {m \in db.runs : m.analysis_id = analysis_db_id
                                          /\ m.run_number = run_number}
             row == [id |-> db.runSeq + 1,
                     analysis_id |-> analysis_db_id,
                     activity_id |-> activity_id,
                     run_number |-> run_number,
                     earth_arrival_timestamp |-> enlil.arrival]
             db1 == [db EXCEPT !.runs = (@ \ replaced) \cup {row},
                               !.runSeq = @ + 1]
         IN  StoreModelRuns(
                StoreSpacecraftImpacts(db1, row.id, analysis_db_id, activity_id,
                                       enlil.impactList),
                analysis_db_id, activity_id, run_number + 1, Tail(enlilList))

\* _store_analysis for each analysis of cmeAnalyses: INSERT OR REPLACE INTO
\* cme_analyses, UNIQUE(activity_id, analysis_id, analysis_type), then its runs
RECURSIVE StoreAnalyses(_, _, _, _, _)
StoreAnalyses(db, hash, cme_id, activity_id, cmeAnalyses) ==
    IF cmeAnalyses = <<>> THEN db
    ELSE LET analysis == Head(cmeAnalyses)
             analysis_id == AnalysisId(hash, activity_id, analysis.featureCode,
                                       analysis.time21_5)
             replaced == {a \in db.analyses :
                            /\ a.activity_id = activity_id
                            /\ a.analysis_id = analysis_id
                            /\ a.analysis_type = analysis.featureCode}
             row == [id |-> db.analysisSeq + 1,
                     cme_id |-> cme_id,
                     activity_id |-> activity_id,
                     analysis_id |-> analysis_id,
                     analysis_type |-> analysis.featureCode,
                     measurement_time |-> analysis.time21_5,
                     speed |-> analysis.speed]
             db1 == [db EXCEPT !.analyses = (@ \ replaced) \cup {row},
                               !.analysisSeq = @ + 1]
         IN  StoreAnalyses(
                StoreModelRuns(db1, row.id, activity_id, 1, analysis.enlilList),
                hash, cme_id, activity_id, Tail(cmeAnalyses))

\* store_cme: INSERT OR REPLACE INTO cmes_enhanced, UNIQUE(activity_id), then
\* the analyses, then commit
StoreCmeDb(db, hash, cme_data) ==
    LET replaced == {c \in db.cmes : c.activity_id = cme_data.activityID}
        row == [id |-> db.cmeSeq + 1,
                activity_id |-> cme_data.activityID,
                start_timestamp |-> cme_data.startTime]
        db1 == [db EXCEPT !.cmes = (@ \ replaced) \cup {row}, !.cmeSeq = @ + 1]
    IN  StoreAnalyses(db1, hash, row.id, cme_data.activityID, cme_data.cmeAnalyses)

\* (mutant) the analyses joined with their model runs: an analysis without
\* runs is left out
AnalysesForCme_Joined(db, cme_id) ==
    {[row |-> a,
      model_runs |->
        {[row |-> m,
          spacecraft_impacts |-> {i \in db.impacts : i.model_run_id = m.id}]
           : m \in {m \in db.runs : m.analysis_id = a.id}}]
       : a \in {a \in db.analyses :
                  a.cme_id = cme_id /\ \E m \in db.runs : m.analysis_id = a.id}}

\* _get_analyses_for_cme: the analyses of a CME, each with its model runs,
\* each run with its spacecraft impacts
AnalysesForCme(db, cme_id) ==
    {[row |-> a,
      model_runs |->
        {[row |-> m,
          spacecraft_impacts |-> {i \in db.impacts : i.model_run_id = m.id}]
           : m \in {m \in db.runs : m.analysis_id = a.id}}]
       : a \in {a \in db.analyses : a.cme_id = cme_id}}

\* get_cmes_with_arrivals_in_window: SELECT DISTINCT c.* ... JOIN ... WHERE
\* m.earth_arrival_timestamp >= ? AND m.earth_arrival_timestamp <= ?
ArrivalsInWindow(db, window_start, window_end, uncertainty_hours) ==
    LET start_ts == Timestamp(window_start - HoursMs(uncertainty_hours))
        end_ts == Timestamp(window_end + HoursMs(uncertainty_hours))
        hit == {c \in db.cmes :
                  \E a \in db.analyses : \E m \in db.runs :
                     /\ c.id = a.cme_id
                     /\ a.id = m.analysis_id
                     /\ m.earth_arrival_timestamp # NULL
                     /\ m.earth_arrival_timestamp >= start_ts
                     /\ m.earth_arrival_timestamp <= end_ts}
    IN  {[row |-> c, analyses |-> AnalysesForCme(db, c.id)] : c \in hit}

\* get_cmes_for_period: SELECT * FROM cmes_enhanced WHERE start_timestamp >= ?
\* AND start_timestamp <= ?
CmesForPeriod(db, start_time, end_time) ==
    LET start_ts == Timestamp(start_time)
        end_ts == Timestamp(end_time)
        hit == {c \in db.cmes : c.start_timestamp >= start_ts
                                /\ c.start_timestamp <= end_ts}
    IN  {[row |-> c, analyses |-> AnalysesForCme(db, c.id)] : c \in hit}

----------------------------------------------------------------------------
(* The DONKI payloads handed to store_cme, and the windows asked for *)

ActivityIds == {"CME-001", "CME-002"}
NoPayload == [activityID |-> "none"]

\* startTime of a CME: T (00:00:00 of day 1) or an hour later
CmeT == Day1
CmeStarts == {CmeT, CmeT + 3600}

\* estimatedShockArrivalTime: T+50h, T+60h, or none
ArrivalA == CmeT + 50 * 3600
ArrivalB == CmeT + 60 * 3600

EnlilHit == [arrival |-> ArrivalA, impactList |-> <<"STEREO A">>]
EnlilLate == [arrival |-> ArrivalB, impactList |-> <<>>]
EnlilNoEarth == [arrival |-> NULL, impactList |-> <<"Mars", "STEREO A">>]

Analysis(code, t21, enlilList) ==
    [featureCode |-> code, time21_5 |-> t21,
     speed |-> IF code = "LE" THEN 450 ELSE 900, enlilList |-> enlilList]

AnalysisLists ==
    {<<>>}
    \cup {<<Analysis("LE", "T21a", runs)>>
            : runs \in {<<>>, <<EnlilHit>>, <<EnlilNoEarth>>, <<EnlilHit, EnlilLate>>}}
    \cup {<<Analysis("SH", "T21a", <<EnlilLate>>)>>}
    \* the leading edge and the shock front of one CME
    \cup {<<Analysis("LE", "T21a", <<EnlilHit>>), Analysis("SH", "T21a", runs)>>
            : runs \in {<<>>, <<EnlilLate>>}}
    \* two analyses of one feature: with the same time21_5, and with another
    \cup {<<Analysis("LE", "T21a", <<EnlilHit>>), Analysis("LE", t21, <<EnlilLate>>)>>
            : t21 \in MTimes}

\* a model run whose estimatedShockArrivalTime does not parse
EnlilBad == [arrival |-> BadTime, impactList |-> <<"STEREO A">>]

\* payloads of a catalog that holds malformed times: a run that does not
\* parse alone, after and before runs that do, and a startTime that does not
FaultPayloads ==
    {[activityID |-> "CME-001", startTime |-> CmeT, cmeAnalyses |-> al]
       : al \in {<<>>,
                 <<Analysis("LE", "T21a", <<EnlilHit>>)>>,
                 <<Analysis("LE", "T21a", <<EnlilBad>>)>>,
                 <<Analysis("LE", "T21a", <<EnlilHit, EnlilBad>>)>>,
                 <<Analysis("LE", "T21a", <<EnlilBad, EnlilLate>>)>>}}
    \cup {[activityID |-> a, startTime |-> BadTime,
            cmeAnalyses |-> <<Analysis("LE", "T21a", <<EnlilHit>>)>>]
            : a \in ActivityIds}
    \cup {[activityID |-> "CME-002", startTime |-> CmeT + 3600,
            cmeAnalyses |-> <<Analysis("SH", "T21b", <<EnlilLate>>)>>]}

\* every list for CME-001 starting at T; some of them for CME-001 starting an
\* hour later (a revised startTime) and for CME-002
Payloads ==
    {[activityID |-> "CME-001", startTime |-> CmeT, cmeAnalyses |-> al]
       : al \in AnalysisLists}
    \cup {[activityID |-> a, startTime |-> CmeT + 3600, cmeAnalyses |-> al]
            : a \in ActivityIds,
              al \in {<<>>, <<Analysis("LE", "T21a", <<EnlilHit, EnlilLate>>)>>}}

\* <<window_start, window_end, uncertainty_hours>>, the datetimes in
\* milliseconds: T+40h .. T+48h +-7h holds T+50h; T+43h + 7h and T+57h - 7h
\* are T+50h itself; half a second after T+57h; T+58h; T-1h .. T+1h holds the
\* start of the CME and no arrival
Windows ==
    {<<Ms(CmeT + 40 * 3600), Ms(CmeT + 48 * 3600), 7>>,
     <<Ms(CmeT + 40 * 3600), Ms(CmeT + 43 * 3600), 7>>,
     <<Ms(CmeT + 57 * 3600), Ms(CmeT + 58 * 3600), 7>>,
     <<Ms(CmeT + 57 * 3600) + 500, Ms(CmeT + 58 * 3600), 7>>,
     <<Ms(CmeT + 58 * 3600), Ms(CmeT + 59 * 3600), 7>>,
     <<Ms(CmeT + 50 * 3600), Ms(CmeT + 60 * 3600), 0>>,
     <<Ms(CmeT - 3600), Ms(CmeT + 3600), 7>>}

\* ORDER BY start_timestamp DESC (c.start_timestamp of the arrival query)
StartTimestamp(entry) == entry.row.start_timestamp

\* <<start_time, end_time>> of get_flares_for_report_period, in milliseconds
FlarePeriods ==
    {<<Ms(T0100), Ms(T0130)>>,
     <<Ms(T0100) + 500, Ms(T0130) + 500>>,
     <<Ms(T0105), Ms(Day2 + 3600)>>}

\* <<start_time, end_time>> in milliseconds
Periods ==
    {<<Ms(CmeT), Ms(CmeT + 3600)>>,
     <<Ms(CmeT) + 500, Ms(CmeT + 3600) + 500>>,
     <<Ms(CmeT + 1800), Ms(CmeT + 7200)>>}

----------------------------------------------------------------------------
(* State *)

\* no query is running
Idle == [pc |-> "idle"]

\* the processes that run scrape_and_update: flare_scheduler.py
\* (collect_flares) and the report generator (collect_latest_flares)
Procs == {"scheduler", "report"}

NoOp == [op |-> "none", source |-> "", log |-> <<>>, ret |-> 0,
         hours |-> 0, clock |-> 0, gone |-> {}]

Init ==
    /\ flares = {}
    /\ nextFlareId = 1
    /\ now = T0100 + 600
    /\ last = NoOp
    /\ steps = 0
    /\ cmedb = EmptyCmeDb
    /\ strhash = [t \in MTimes |-> 555555]
    /\ latest = [a \in ActivityIds |-> NoPayload]
    /\ reader = Idle
    /\ leaked = FALSE
    /\ cycles = [p \in Procs |-> Idle]

\* store_flares(flares, source)
StoreFlares(batch, source) ==
    /\ steps < MaxSteps
    /\ \E out \in StoreBatch([rows |-> flares, nextId |-> nextFlareId,
                              new_count |-> 0, log |-> <<>>],
                             batch, source, now) :
          /\ flares' = out.rows
          /\ nextFlareId' = out.nextId
          /\ last' = [NoOp EXCEPT !.op = "store_flares", !.source = source,
                                  !.log = out.log, !.ret = out.new_count]
    /\ steps' = steps + 1
    /\ UNCHANGED <<now, cmedb, strhash, latest, reader, leaked, cycles>>

\* cleanup_old_flares(hours)
CleanupOldFlares(hours) ==
    /\ steps < MaxSteps
    /\ \E ms \in SubSeconds :
          LET clock == Ms(now) + ms
              deleted == Expired(flares, Cutoff(clock, hours))
          IN  /\ flares' = flares \ deleted
              /\ last' = [NoOp EXCEPT !.op = "cleanup_old_flares",
                                      !.hours = hours, !.clock = clock,
                                      !.gone = deleted,
                                      !.ret = Cardinality(deleted)]
    /\ steps' = steps + 1
    /\ UNCHANGED <<nextFlareId, now, cmedb, strhash, latest, reader, leaked, cycles>>

\* time passes between two operations
Tick ==
    /\ \E t \in Clock : t > now /\ now' = t
    /\ UNCHANGED <<flares, nextFlareId, last, steps, cmedb, strhash, latest, reader, leaked, cycles>>

Hours == {0, 24}

Next ==
    \/ \E source \in Sources : \E batch \in Batches(source) : StoreFlares(batch, source)
    \/ \E hours \in Hours : CleanupOldFlares(hours)
    \/ Tick

vars == <<flares, nextFlareId, now, last, steps, cmedb, strhash, latest, reader, leaked, cycles>>

Spec == Init /\ [][Next]_vars

\* parse_noaa_flares returns every flare of the discussion in one list: two
\* M1.2 flares of the same day, 25 minutes apart
NoaaPairs ==
    {p \in {Flare(ts, HHMM(ts), M12, None, None, NULL, NULL, "noaa")
               : ts \in {T0105, T0130}}
            \X {Flare(ts, HHMM(ts), M12, None, None, NULL, NULL, "noaa")
                  : ts \in {T0105, T0130}} : p[1] # p[2]}

\* store_flares on the lists the two parsers return, one flare or two
NextReingest ==
    \/ \E source \in Sources : \E batch \in Batches(source) : StoreFlares(batch, source)
    \/ \E batch \in NoaaPairs : StoreFlares(batch, "NOAA")

SpecReingest == Init /\ [][NextReingest]_vars

----------------------------------------------------------------------------
(* The CME store as a state machine *)

InitCME ==
    /\ flares = {}
    /\ nextFlareId = 1
    /\ now = T0100 + 600
    /\ last = NoOp
    /\ steps = 0
    /\ cmedb = EmptyCmeDb
    /\ strhash \in StrHashes
    /\ latest = [a \in ActivityIds |-> NoPayload]
    /\ reader = Idle
    /\ leaked = FALSE
    /\ cycles = [p \in Procs |-> Idle]

RowCounts(db) ==
    [cmes |-> Cardinality(db.cmes), analyses |-> Cardinality(db.analyses),
     runs |-> Cardinality(db.runs), impacts |-> Cardinality(db.impacts)]

\* store_cme(cme_data); returns cme_id, or None (NULL) when an exception
\* reaches its own handler: a startTime that does not parse raises before
\* the first INSERT, nothing is committed
StoreCme(cme_data) ==
    /\ steps < MaxSteps
    /\ cmedb' = IF cme_data.startTime = BadTime THEN cmedb
                ELSE StoreCmeDb(cmedb, strhash, cme_data)
    /\ latest' = IF cme_data.startTime = BadTime THEN latest
                 ELSE [latest EXCEPT ![cme_data.activityID] = cme_data]
    /\ last' = [op |-> "store_cme", payload |-> cme_data,
                previous |-> IF last.op = "store_cme" THEN last.payload
                             ELSE NoPayload,
                counts_before |-> RowCounts(cmedb),
                ret |-> IF cme_data.startTime = BadTime THEN NULL
                        ELSE cmedb.cmeSeq + 1]
    /\ steps' = steps + 1
    /\ UNCHANGED <<flares, nextFlareId, now, strhash, reader, leaked, cycles>>

\* get_cmes_with_arrivals_in_window(window_start, window_end, uncertainty_hours)
GetCmesWithArrivalsInWindow(window) ==
    /\ steps < MaxSteps
    /\ \E listed \in OrderByDesc([e \in ArrivalsInWindow(cmedb, window[1],
                                                          window[2], window[3])
                                      |-> StartTimestamp(e)]) :
          last' = [op |-> "get_cmes_with_arrivals_in_window", window |-> window,
                   result |-> ArrivalsInWindow(cmedb, window[1], window[2],
                                               window[3]),
                   listed |-> listed]
    /\ steps' = steps + 1
    /\ UNCHANGED <<flares, nextFlareId, now, cmedb, strhash, latest, reader, leaked, cycles>>

\* get_cmes_for_period(start_time, end_time)
GetCmesForPeriod(period) ==
    /\ steps < MaxSteps
    /\ \E listed \in OrderByDesc([e \in CmesForPeriod(cmedb, period[1], period[2])
                                      |-> StartTimestamp(e)]) :
          last' = [op |-> "get_cmes_for_period", period |-> period,
                   result |-> CmesForPeriod(cmedb, period[1], period[2]),
                   listed |-> listed]
    /\ steps' = steps + 1
    /\ UNCHANGED <<flares, nextFlareId, now, cmedb, strhash, latest, reader, leaked, cycles>>

\* the next sync runs in a new process: hash() is salted anew
NewProcess ==
    /\ steps < MaxSteps
    /\ \E h \in StrHashes : h # strhash /\ strhash' = h
    /\ leaked' = FALSE
    /\ steps' = steps + 1
    /\ UNCHANGED <<flares, nextFlareId, now, last, cmedb, latest, reader, cycles>>

NextCME ==
    \/ \E cme_data \in Payloads : StoreCme(cme_data)
    \/ \E window \in Windows : GetCmesWithArrivalsInWindow(window)
    \/ \E period \in Periods : GetCmesForPeriod(period)
    \/ NewProcess

SpecCME == InitCME /\ [][NextCME]_vars

----------------------------------------------------------------------------
(* A query running beside the writer.  Writer and readers open their own   *)
(* connections.  store_cme writes inside one transaction and commits once  *)
(* (line 293), and a SELECT of another connection sees committed rows      *)
(* only, so the store acts at its commit: StoreCme.  The reader opens no   *)
(* transaction: every cursor.execute of get_cmes_for_period,               *)
(* get_cmes_with_arrivals_in_window and _get_analyses_for_cme is a         *)
(* statement of its own and reads the rows committed when it runs.         *)

\* ORDER BY analysis_type, analysis_id; ORDER BY run_number; ORDER BY
\* spacecraft_name
TypeRank(analysis_type) == IF analysis_type = "LE" THEN 0 ELSE 1
AnalysisOrder(a) == TypeRank(a.analysis_type) * 1000000 + a.analysis_id
RunNumber(m) == m.run_number
NameRank(i) == IF i.spacecraft_name = "Mars" THEN 0 ELSE 1
OrderByAsc(key) ==
    {sq \in Orderings(DOMAIN key) :
        \A i \in 1..(Len(sq) - 1) : key[sq[i]] <= key[sq[i + 1]]}

\* the SELECT still to run for a row already read
Task(level, id) == [level |-> level, id |-> id]

\* the lists a SELECT of _get_analyses_for_cme may return
SelectChildren(db, task) ==
    IF task.level = "analyses"
    THEN OrderByAsc([a \in {a \in db.analyses : a.cme_id = task.id}
                       |-> AnalysisOrder(a)])
    ELSE IF task.level = "runs"
    THEN OrderByAsc([m \in {m \in db.runs : m.analysis_id = task.id}
                       |-> RunNumber(m)])
    ELSE OrderByAsc([i \in {i \in db.impacts : i.model_run_id = task.id}
                       |-> NameRank(i)])

\* the SELECTs the rows of a list call for: the model runs of each analysis,
\* the impacts of each model run, nothing for an impact
ChildTasks(task, rows) ==
    IF task.level = "impacts" THEN <<>>
    ELSE [i \in 1..Len(rows) |->
            Task(IF task.level = "analyses" THEN "runs" ELSE "impacts", rows[i].id)]

\* the query has returned
ReaderDone == reader.pc = "reading" /\ reader.todo = <<>>
ReaderFree == reader.pc = "idle" \/ ReaderDone

\* the first SELECT of a query has listed the CMEs; their analyses are next
Reading(query, args, listed) ==
    [pc |-> "reading", query |-> query, args |-> args,
     cmes |-> {listed[i].row : i \in 1..Len(listed)},
     analyses |-> {}, runs |-> {}, impacts |-> {},
     todo |-> [i \in 1..Len(listed) |-> Task("analyses", listed[i].row.id)],
     seen |-> {cmedb}]

\* get_cmes_for_period(start_time, end_time) up to cursor.fetchall() of its
\* SELECT
BeginGetCmesForPeriod(period) ==
    /\ steps < MaxSteps
    /\ ReaderFree
    /\ \E listed \in OrderByDesc([e \in CmesForPeriod(cmedb, period[1], period[2])
                                      |-> StartTimestamp(e)]) :
          reader' = Reading("get_cmes_for_period", period, listed)
    /\ steps' = steps + 1
    /\ UNCHANGED <<flares, nextFlareId, now, last, cmedb, strhash, latest, leaked, cycles>>

\* get_cmes_with_arrivals_in_window(...) up to cursor.fetchall() of its SELECT
BeginGetCmesWithArrivalsInWindow(window) ==
    /\ steps < MaxSteps
    /\ ReaderFree
    /\ \E listed \in OrderByDesc([e \in ArrivalsInWindow(cmedb, window[1],
                                                          window[2], window[3])
                                      |-> StartTimestamp(e)]) :
          reader' = Reading("get_cmes_with_arrivals_in_window", window, listed)
    /\ steps' = steps + 1
    /\ UNCHANGED <<flares, nextFlareId, now, last, cmedb, strhash, latest, leaked, cycles>>

\* the next cursor.execute / fetchall of _get_analyses_for_cme
ReadChildren ==
    /\ reader.pc = "reading"
    /\ reader.todo # <<>>
    /\ LET task == Head(reader.todo)
       IN  \E rows \in SelectChildren(cmedb, task) :
              LET read == {rows[i] : i \in 1..Len(rows)}
              IN  reader' =
                    [reader EXCEPT
                       !.analyses = IF task.level = "analyses" THEN @ \cup read ELSE @,
                       !.runs = IF task.level = "runs" THEN @ \cup read ELSE @,
                       !.impacts = IF task.level = "impacts" THEN @ \cup read ELSE @,
                       !.todo = ChildTasks(task, rows) \o Tail(@),
                       !.seen = @ \cup {cmedb}]
    /\ UNCHANGED <<flares, nextFlareId, now, last, steps, cmedb, strhash, latest, leaked, cycles>>

\* the payloads synced while a query runs
ReaderPayloads ==
    {[activityID |-> "CME-001", startTime |-> CmeT, cmeAnalyses |-> al]
       : al \in {<<>>,
                 <<Analysis("LE", "T21a", <<EnlilHit>>)>>,
                 <<Analysis("LE", "T21a", <<EnlilHit, EnlilLate>>)>>,
                 <<Analysis("LE", "T21a", <<EnlilHit>>),
                   Analysis("SH", "T21a", <<EnlilLate>>)>>}}
    \cup {[activityID |-> "CME-002", startTime |-> CmeT + 3600,
            cmeAnalyses |-> <<Analysis("LE", "T21a", <<EnlilNoEarth>>)>>]}

NextReaders ==
    \/ \E cme_data \in ReaderPayloads : StoreCme(cme_data)
    \/ \E period \in Periods : BeginGetCmesForPeriod(period)
    \/ \E window \in Windows : BeginGetCmesWithArrivalsInWindow(window)
    \/ ReadChildren

SpecReaders == Init /\ [][NextReaders]_vars

\* the store fed from a catalog with malformed times
NextFault ==
    \/ \E cme_data \in FaultPayloads : StoreCme(cme_data)
    \/ \E period \in Periods : GetCmesForPeriod(period)

SpecFault == Init /\ [][NextFault]_vars

-----------------------------------------------------------------------------
(* sync_cmes: store_cme over the list the API returned.  store_cme opens   *)
(* its connection inside its try and closes it after the commit only: an    *)
(* exception after the INSERT (line 278) leaves the connection open,        *)
(* holding the write lock of its uncommitted transaction, until Python      *)
(* collects the connection object.  While it is held, the INSERT of a later *)
(* store_cme raises "database is locked" (after the 5 s timeout).           *)

\* the keys of the payload whose JSON value is null
NullKeys(cme_data) ==
    IF "null" \in DOMAIN cme_data THEN cme_data.null ELSE {}

\* one store_cme of the loop.  st is [db, latest, leaked, stored_count,
\* results]; results lists what store_cme returned for each record (NULL for
\* None).
StoreCmeOutcomes(st, hash, cme_data) ==
    LET failed == [st EXCEPT !.results = Append(@, NULL)]
    IN  IF cme_data.startTime = BadTime
        THEN {failed}                              \* fromisoformat, line 257
        ELSE {IF held
              THEN failed                          \* "database is locked", line 278
              ELSE IF "cmeAnalyses" \in NullKeys(cme_data)
              THEN [failed EXCEPT !.leaked = TRUE] \* "for analysis in None", line 290
              ELSE [db |-> StoreCmeDb(st.db, hash, cme_data),
                    latest |-> [st.latest EXCEPT ![cme_data.activityID] = cme_data],
                    leaked |-> FALSE,
                    stored_count |-> st.stored_count + 1,
                    results |-> Append(st.results, st.db.cmeSeq + 1)]
              : held \in IF st.leaked THEN {TRUE, FALSE} ELSE {FALSE}}

\* "for cme in cmes: if self.store_cme(cme): stored_count += 1"
RECURSIVE SyncLoop(_, _, _)
SyncLoop(st, hash, cmes) ==
    IF cmes = <<>> THEN {st}
    ELSE UNION {SyncLoop(s, hash, Tail(cmes))
                : s \in StoreCmeOutcomes(st, hash, Head(cmes))}

\* sync_cmes(start_date, end_date), cmes being what fetch_cmes_from_api gave
SyncCmes(cmes) ==
    /\ steps < MaxSteps
    /\ \E out \in SyncLoop([db |-> cmedb, latest |-> latest, leaked |-> leaked,
                            stored_count |-> 0, results |-> <<>>],
                           strhash, cmes) :
          /\ cmedb' = out.db
          /\ latest' = out.latest
          /\ leaked' = out.leaked
          /\ last' = [op |-> "sync_cmes", cmes |-> cmes,
                      results |-> out.results, ret |-> out.stored_count]
    /\ steps' = steps + 1
    /\ UNCHANGED <<flares, nextFlareId, now, strhash, reader, cycles>>

\* records of the DONKI answer: two CMEs with analyses, one whose startTime
\* does not parse, one whose cmeAnalyses is null
SyncRecords ==
    {[activityID |-> "CME-001", startTime |-> CmeT,
      cmeAnalyses |-> <<Analysis("LE", "T21a", <<EnlilHit>>)>>],
     [activityID |-> "CME-002", startTime |-> CmeT + 3600,
      cmeAnalyses |-> <<Analysis("SH", "T21b", <<EnlilLate>>)>>],
     [activityID |-> "CME-002", startTime |-> BadTime, cmeAnalyses |-> <<>>],
     [activityID |-> "CME-001", startTime |-> CmeT + 3600,
      cmeAnalyses |-> <<>>, null |-> {"cmeAnalyses"}]}

MaxSync == 2
SyncLists ==
    {<<>>} \cup UNION {[1..n -> SyncRecords] : n \in 1..MaxSync}

NextSync ==
    \/ \E cmes \in SyncLists : SyncCmes(cmes)
    \/ NewProcess

SpecSync == InitCME /\ [][NextSync]_vars

----------------------------------------------------------------------------
(* The report's occurrence queries over both stores *)

\* get_flares_for_report_period(start_time, end_time)
GetFlaresForReportPeriod(period) ==
    /\ steps < MaxSteps
    /\ \E listed \in FlaresForReportPeriod(flares, period[1], period[2]) :
          last' = [op |-> "get_flares_for_report_period", period |-> period,
                   listed |-> listed]
    /\ steps' = steps + 1
    /\ UNCHANGED <<flares, nextFlareId, now, cmedb, strhash, latest, reader, leaked, cycles>>

NextPeriod ==
    \/ \E source \in Sources : \E batch \in Batches(source) : StoreFlares(batch, source)
    \/ \E cme_data \in Payloads : StoreCme(cme_data)
    \/ \E period \in FlarePeriods : GetFlaresForReportPeriod(period)
    \/ \E period \in Periods : GetCmesForPeriod(period)

SpecPeriod == Init /\ [][NextPeriod]_vars

----------------------------------------------------------------------------
(* The scraping cycle: scrape_and_update *)

\* what a fetch and the parse of its text give: fetched is FALSE when the
\* fetch returned None, flares is what the parser extracts from the text
FetchFailed == [fetched |-> FALSE, flares |-> <<>>]
Fetched(batch) == [fetched |-> TRUE, flares |-> batch]

LmsalA == Flare(T0100, HHMM(T0100), M14, None, "N24E47", 5280, 5700, "lmsal")
LmsalB == Flare(T0105, HHMM(T0105), M14, "4274", "N24E47", 5340, 5760, "lmsal")
LmsalC == Flare(T0130, HHMM(T0130), M14, None, "N24E47", 5280, 5700, "lmsal")
NoaaA == Flare(T0105, HHMM(T0105), M14, None, None, NULL, NULL, "noaa")
NoaaB == Flare(T0105, HHMM(T0105), X14, None, None, NULL, NULL, "noaa")
NoaaC == Flare(T0130, HHMM(T0130), M14, "4274", None, NULL, NULL, "noaa")

\* fetch_lmsal_flares with parse_lmsal_table, fetch_noaa_discussion with
\* parse_noaa_flares: no text, a text without flares, one flare, two flares
LmsalFetches ==
    {FetchFailed} \cup {Fetched(b) : b \in {<<>>, <<LmsalA>>, <<LmsalC>>, <<LmsalA, LmsalB>>}}
NoaaFetches ==
    {FetchFailed} \cup {Fetched(b) : b \in {<<>>, <<NoaaA>>, <<NoaaC>>, <<NoaaA, NoaaB>>}}

\* (mutant) a text without flares counts as a source with flares
HasFlares_AnyText(fetch) == fetch.fetched

\* "if lmsal_html: ... if lmsal_flares:" the source has flares to store
HasFlares(fetch) == fetch.fetched /\ fetch.flares # <<>>

\* "deleted = self.cleanup_old_flares(hours=24)"
RetentionHours == 24

\* get_flares_last_24h: WHERE event_timestamp >= ? OR event_timestamp IS NULL
FlaresLast24h(rows, clock) ==
    {r \in rows : r.event_timestamp = NULL
                    \/ r.event_timestamp >= Cutoff(clock, RetentionHours)}

\* (mutant) the cycle succeeds only when the primary source gave flares
CycleSucceeds_PrimaryOnly(sources_used) ==
    \E i \in 1..Len(sources_used) : sources_used[i] = "LMSAL"

\* "if not sources_used: return {'success': False, ...}"
CycleSucceeds(sources_used) == sources_used # <<>>

\* scrape_and_update: LMSAL, then NOAA, then retention and the summary; the
\* outcomes are [db, stored, ret]: the rows left, the rows after the stores,
\* and the dict returned
ScrapeAndUpdateOutcomes(db, lmsal, noaa, scraped_at, clock) ==
    LET afterLmsal == IF HasFlares(lmsal)
                      THEN StoreBatch(db, lmsal.flares, "LMSAL", scraped_at)
                      ELSE {db}
        afterNoaa(d) == IF HasFlares(noaa)
                        THEN StoreBatch(d, noaa.flares, "NOAA", scraped_at)
                        ELSE {d}
        sources_used == (IF HasFlares(lmsal) THEN <<"LMSAL">> ELSE <<>>)
                        \o (IF HasFlares(noaa) THEN <<"NOAA">> ELSE <<>>)
        Finish(d) ==
            IF ~CycleSucceeds(sources_used)
            THEN [db |-> d, stored |-> d.rows,
                  ret |-> [success |-> FALSE,
                           error |-> "Failed to fetch data from any source"]]
            ELSE LET deleted == Expired(d.rows, Cutoff(clock, RetentionHours))
                     left == d.rows \ deleted
                 IN  [db |-> [d EXCEPT !.rows = left], stored |-> d.rows,
                      ret |-> [success |-> TRUE,
                               new_flares |-> d.new_count,
                               deleted_old |-> Cardinality(deleted),
                               current_total |-> Cardinality(FlaresLast24h(left, clock)),
                               sources_used |-> sources_used]]
    IN  {Finish(d) : d \in UNION {afterNoaa(dl) : dl \in afterLmsal}}

\* scrape_and_update()
ScrapeAndUpdate(lmsal, noaa) ==
    /\ steps < MaxSteps
    /\ \E ms \in SubSeconds :
          LET clock == Ms(now) + ms
          IN  \E out \in ScrapeAndUpdateOutcomes(
                            [rows |-> flares, nextId |-> nextFlareId,
                             new_count |-> 0, log |-> <<>>],
                            lmsal, noaa, now, clock) :
                 /\ flares' = out.db.rows
                 /\ nextFlareId' = out.db.nextId
                 /\ last' = [op |-> "scrape_and_update", lmsal |-> lmsal,
                             noaa |-> noaa, clock |-> clock,
                             stored |-> out.stored, log |-> out.db.log,
                             ret |-> out.ret]
    /\ steps' = steps + 1
    /\ UNCHANGED <<now, cmedb, strhash, latest, reader, leaked, cycles>>

NextCycle ==
    \/ \E lmsal \in LmsalFetches : \E noaa \in NoaaFetches : ScrapeAndUpdate(lmsal, noaa)
    \/ Tick

SpecCycle == Init /\ [][NextCycle]_vars

\* what a cycle leaves in place of a dict when an exception escapes it
Raised(exception) == [raised |-> exception]

\* scrape_and_update() while another connection holds the write lock of the
\* store past the 5 s timeout of every statement.  In store_flares the
\* lookups read, each UPDATE and INSERT raises sqlite3.OperationalError,
\* caught per flare (line 563), and the commit has nothing to write: the call
\* returns 0.  The DELETE of cleanup_old_flares raises the same error under
\* no handler, and scrape_and_update has none either.
ScrapeAndUpdateBusy(lmsal, noaa) ==
    /\ steps < MaxSteps
    /\ LET sources_used == (IF HasFlares(lmsal) THEN <<"LMSAL">> ELSE <<>>)
                           \o (IF HasFlares(noaa) THEN <<"NOAA">> ELSE <<>>)
       IN  last' = [op |-> "scrape_and_update", lmsal |-> lmsal, noaa |-> noaa,
                    clock |-> Ms(now), stored |-> flares, log |-> <<>>,
                    ret |-> IF ~CycleSucceeds(sources_used)
                            THEN [success |-> FALSE,
                                  error |-> "Failed to fetch data from any source"]
                            ELSE Raised("sqlite3.OperationalError: database is locked")]
    /\ steps' = steps + 1
    /\ UNCHANGED <<flares, nextFlareId, now, cmedb, strhash, latest, reader, leaked, cycles>>

NextBusy ==
    \/ \E lmsal \in LmsalFetches : \E noaa \in NoaaFetches : ScrapeAndUpdate(lmsal, noaa)
    \/ \E lmsal \in LmsalFetches : \E noaa \in NoaaFetches : ScrapeAndUpdateBusy(lmsal, noaa)
    \/ Tick

SpecBusy == Init /\ [][NextBusy]_vars

-----------------------------------------------------------------------------
(* Two cycles at once.  Each process opens its own connection (line 323).   *)
(* The lookup SELECT of store_flares runs outside any transaction and sees  *)
(* committed rows only; sqlite3 begins the transaction at the first UPDATE  *)
(* or INSERT, which takes the write lock of the database file and keeps it  *)
(* until conn.commit() (line 567).  A statement that finds the lock taken   *)
(* waits up to 5 s and then raises sqlite3.OperationalError, caught per     *)
(* flare (line 563).  Table flares has no UNIQUE constraint.                *)

\* UPDATE flares SET <updates>, scraped_at = ? WHERE id = ?: the SET list was
\* built from the row ex the lookup read, and acts on the row cur as it is
\* when the statement runs
UpdatedRow(flare, source, ex, cur, scraped_at) ==
    IF ~ShouldUpdate(flare, source, ex) THEN cur
    ELSE [cur EXCEPT
            !.flare_class = IF UpdatesClass(flare, source, ex)
                            THEN flare.flare_class ELSE @,
            !.region = IF UpdatesRegion(flare, source, ex) THEN flare.region ELSE @,
            !.location = IF UpdatesLocation(flare, source, ex)
                         THEN flare.location ELSE @,
            !.event_time = IF UpdatesEventTime(flare, source, ex)
                           THEN flare.event_time ELSE @,
            !.event_timestamp = IF UpdatesEventTimestamp(flare, source, ex)
                                THEN flare.event_timestamp ELSE @,
            !.peak_time = IF UpdatesPeak(flare, source, ex) THEN flare.peak_time ELSE @,
            !.end_time = IF UpdatesEnd(flare, source, ex) THEN flare.end_time ELSE @,
            !.source = IF PreferIncoming(source, ex) THEN source ELSE @,
            !.scraped_at = scraped_at]

\* process q is inside a transaction that wrote: it holds the write lock
HoldsWriteLock(q) == cycles[q].pc = "written" /\ cycles[q].write # "none"

\* store_flares([flare], source) of process p, up to the end of the matching
\* loop: connect, scraped_at, the SELECT, "existing"
BeginStoreFlares(p, flare, source) ==
    /\ steps < MaxSteps
    /\ cycles[p] = Idle
    /\ \E ex \in IF FirstMatches(flares, flare, source) = {} THEN {NoRow}
                 ELSE FirstMatches(flares, flare, source) :
          cycles' = [cycles EXCEPT ![p] =
                        [pc |-> "looked", flare |-> flare, source |-> source,
                         scraped_at |-> now, existing |-> ex]]
    /\ steps' = steps + 1
    /\ UNCHANGED <<flares, nextFlareId, now, last, cmedb, strhash, latest, reader, leaked>>

\* "if existing: ... UPDATE" or "else: INSERT" of process p.  The statement
\* runs when no other process holds the write lock; while one does, it waits,
\* and may time out: the flare is skipped.
WriteFlare(p) ==
    /\ cycles[p].pc = "looked"
    /\ LET c == cycles[p]
           merges == c.existing # NoRow
           writes == ~merges \/ ShouldUpdate(c.flare, c.source, c.existing)
           locked == \E q \in Procs \ {p} : HoldsWriteLock(q)
       IN  \E timeout \in IF writes /\ locked THEN {TRUE} ELSE {FALSE} :
              cycles' = [cycles EXCEPT ![p] =
                 [pc |-> "written", flare |-> c.flare, source |-> c.source,
                  scraped_at |-> c.scraped_at, existing |-> c.existing,
                  write |-> IF timeout \/ ~writes THEN "none"
                            ELSE IF merges THEN "update" ELSE "insert",
                  skipped |-> timeout]]
    /\ UNCHANGED <<flares, nextFlareId, now, last, steps, cmedb, strhash, latest, reader, leaked>>

\* conn.commit() of process p, and the return of store_flares
CommitFlares(p) ==
    /\ cycles[p].pc = "written"
    /\ LET c == cycles[p]
           inserted == InsertedRow(c.flare, c.source, nextFlareId, c.scraped_at)
           cur == {r \in flares : r.id = c.existing.id}
           updated == {UpdatedRow(c.flare, c.source, c.existing, r, c.scraped_at)
                         : r \in cur}
       IN  /\ flares' = IF c.write = "insert" THEN flares \cup {inserted}
                        ELSE IF c.write = "update" THEN (flares \ cur) \cup updated
                        ELSE flares
           /\ nextFlareId' = IF c.write = "insert" THEN nextFlareId + 1
                             ELSE nextFlareId
           /\ last' = [NoOp EXCEPT
                         !.op = "store_flares", !.source = c.source,
                         !.log = IF c.skipped THEN <<>>
                                 ELSE <<[flare |-> c.flare, target |-> c.existing,
                                         result |-> IF c.write = "insert" THEN inserted
                                                    ELSE IF c.write = "update"
                                                    THEN CHOOSE r \in updated : TRUE
                                                    ELSE c.existing,
                                         pred |-> IF c.existing = NoRow THEN 0
                                                  ELSE MatchPred(c.flare, c.source,
                                                                 c.existing)]>>,
                         !.ret = IF c.write = "insert" THEN 1 ELSE 0]
    /\ cycles' = [cycles EXCEPT ![p] = Idle]
    /\ UNCHANGED <<now, steps, cmedb, strhash, latest, reader, leaked>>

\* the flares both sources list for one event, each with its timestamp
ConcurrentFlares(source) ==
    IF source = "NOAA" THEN {NoaaA, NoaaB, NoaaC} ELSE {LmsalA, LmsalB, LmsalC}

NextConcurrent ==
    \/ \E p \in Procs : \E source \in Sources :
          \E flare \in ConcurrentFlares(source) : BeginStoreFlares(p, flare, source)
    \/ \E p \in Procs : WriteFlare(p)
    \/ \E p \in Procs : CommitFlares(p)

SpecConcurrent == Init /\ [][NextConcurrent]_vars

-----------------------------------------------------------------------------
(* The 24-hour summary (get_flares_summary).  A magnitude is held in tenths, *)
(* so the strength 1000 + magnitude of the code is 10000 + mag here.         *)

\* flare_strength of get_flares_summary, in tenths
flare_strength(flare_class) ==
    IF flare_class.letter = "X" THEN 10000 + flare_class.mag
    ELSE IF flare_class.letter = "M" THEN 1000 + flare_class.mag
    ELSE IF flare_class.letter = "C" THEN 100 + flare_class.mag
    ELSE 0

\* the columns get_flares_last_24h selects
SummaryView(r) ==
    [event_date |-> r.event_date, event_time |-> r.event_time,
     flare_class |-> r.flare_class, region |-> r.region,
     location |-> r.location, raw_text |-> r.raw_text]

\* get_flares_last_24h: the rows of FlaresLast24h, ORDER BY event_timestamp
\* DESC NULLS LAST (NULL is below every timestamp), as dicts
FlaresLast24hListed(rows, clock) ==
    LET hit == FlaresLast24h(rows, clock)
    IN  {[i \in 1..Len(sq) |-> SummaryView(sq[i])]
           : sq \in OrderByDesc([r \in hit |-> EventTimestamp(r)])}

\* max(flares, key=...): the first flare of the list with the greatest key;
\* <<>> stands for None, <<f>> for the flare f
Strongest(listed) ==
    IF listed = <<>> THEN <<>>
    ELSE LET best == CHOOSE i \in 1..Len(listed) :
                       /\ \A j \in 1..Len(listed) :
                             flare_strength(listed[j].flare_class)
                               <= flare_strength(listed[i].flare_class)
                       /\ \A j \in 1..(i - 1) :
                             flare_strength(listed[j].flare_class)
                               < flare_strength(listed[i].flare_class)
         IN  <<listed[best]>>

CountClass(listed, letter) ==
    Cardinality({i \in 1..Len(listed) : listed[i].flare_class.letter = letter})

\* the dict get_flares_summary returns for a list
FlaresSummary(listed) ==
    [total_count |-> Len(listed),
     x_class_count |-> CountClass(listed, "X"),
     m_class_count |-> CountClass(listed, "M"),
     c_class_count |-> CountClass(listed, "C"),
     strongest_flare |-> Strongest(listed),
     flares_list |-> listed]

GetFlaresSummary ==
    /\ steps < MaxSteps
    /\ \E ms \in SubSeconds :
       \E listed \in FlaresLast24hListed(flares, Ms(now) + ms) :
          last' = [op |-> "get_flares_summary", clock |-> Ms(now) + ms,
                   ret |-> FlaresSummary(listed)]
    /\ steps' = steps + 1
    /\ UNCHANGED <<flares, nextFlareId, now, cmedb, strhash, latest, reader, leaked, cycles>>

\* classes the patterns of parse_noaa_flares accept ([A-Z]\d+\.?\d*): B2.1,
\* B9.0, C1.2, C95, M1.4, X1.4
SummaryClasses ==
    {[letter |-> "B", mag |-> 21], [letter |-> "B", mag |-> 90],
     [letter |-> "C", mag |-> 12], [letter |-> "C", mag |-> 950], M14, X14}

SummaryFlares ==
    {Flare(ts, HHMM(ts), c, None, None, NULL, NULL, "noaa")
       : ts \in {T0105, T0130}, c \in SummaryClasses}

NextSummary ==
    \/ \E f \in SummaryFlares : StoreFlares(<<f>>, "NOAA")
    \/ StoreFlares(<<>>, "NOAA")
    \/ GetFlaresSummary
    \/ Tick

SpecSummary == Init /\ [][NextSummary]_vars

----------------------------------------------------------------------------
(* Properties.  A log entry of the latest store_flares is "a merge" when it *)
(* names the row it matched, "an insert" otherwise.                         *)

StoredFlares == last.op = "store_flares"
LogEntries == IF StoredFlares THEN {last.log[i] : i \in DOMAIN last.log} ELSE {}
IsMerge(e) == e.target.id # 0
IsInsert(e) == e.target.id = 0

\* two classes are within the tolerance: same letter, magnitudes at most 0.2 apart
SameLetter(c1, c2) == c1.letter = c2.letter
WithinTolerance(c1, c2) == SameLetter(c1, c2) /\ Abs(c1.mag - c2.mag) <= 2

\* C1 (magnitude gate): no flare is merged into a row whose class letter
\* differs from its own or whose magnitude is more than 0.2 away from its
\* own, whatever the timestamps, peak times, locations and sources are.
C1_MagnitudeGate ==
    \A e \in LogEntries :
        IsMerge(e) => WithinTolerance(e.flare.flare_class, e.target.flare_class)

\* C1's case: a flare was stored while a row with its very start timestamp
\* and date, but another letter or a magnitude more than 0.2 away, was there;
\* the flare went elsewhere (into another row, or into a new one).
C1_Witness ==
    \E e \in LogEntries : \E r \in flares :
        /\ r.id # e.result.id
        /\ r.event_date = e.flare.event_date
        /\ e.flare.event_timestamp # NULL
        /\ r.event_timestamp = e.flare.event_timestamp
        /\ ~WithinTolerance(e.flare.flare_class, r.flare_class)

C5_RetentionExemption ==
    [][(last'.op = "cleanup_old_flares" /\ steps' = steps + 1) =>
          \A r \in flares : r.event_timestamp = NULL => r \in flares']_vars

\* C5's case: a cleanup has deleted rows and a row without timestamp is there
C5_Witness ==
    /\ last.op = "cleanup_old_flares"
    /\ last.gone # {}
    /\ \E r \in flares : r.event_timestamp = NULL

\* The five match predicates as the design states them, for an incoming
\* flare f of a source and an existing row ex of the same date.
Known(t) == t # NULL
PeakInstant(date, peak) == date * (24 * 3600) + peak
Pred1(f, ex) ==
    /\ Known(f.event_timestamp) /\ Known(ex.event_timestamp)
    /\ Abs(f.event_timestamp - ex.event_timestamp) <= 5 * 60
Pred2(f, source, ex) ==
    /\ source = "NOAA" /\ ex.source = "LMSAL"
    /\ Known(f.event_timestamp) /\ Known(ex.peak_time)
    /\ Abs(f.event_timestamp - PeakInstant(ex.event_date, ex.peak_time)) <= 2 * 60
Pred3(f, source, ex) ==
    /\ source = "LMSAL" /\ ex.source = "NOAA"
    /\ Known(f.peak_time) /\ Known(ex.event_timestamp)
    /\ Abs(PeakInstant(f.event_date, f.peak_time) - ex.event_timestamp) <= 2 * 60
Pred4(f, source, ex) ==
    /\ source = "LMSAL" /\ ex.source = "LMSAL"
    /\ Known(f.peak_time) /\ Known(ex.peak_time)
    /\ Abs(f.peak_time - ex.peak_time) <= 60
Pred5(f, ex) ==
    /\ f.location # None /\ f.location = ex.location
    /\ Known(f.event_timestamp) /\ Known(ex.event_timestamp)
    /\ Abs(f.event_timestamp - ex.event_timestamp) <= 30 * 60
PredHolds(k, f, source, ex) ==
    CASE k = 1 -> Pred1(f, ex)
      [] k = 2 -> Pred2(f, source, ex)
      [] k = 3 -> Pred3(f, source, ex)
      [] k = 4 -> Pred4(f, source, ex)
      [] k = 5 -> Pred5(f, ex)
      [] OTHER -> FALSE

\* C8 (predicate priority): a merge is attributed to the first of the
\* predicates 1..5, in this order, that the flare and the matched row
\* satisfy; with 1 and 5 both satisfied it is attributed to 1.
C8_PredicatePriority ==
    \A e \in LogEntries :
        IsMerge(e) =>
            /\ e.pred \in 1..5
            /\ PredHolds(e.pred, e.flare, last.source, e.target)
            /\ \A j \in 1..5 :
                  j < e.pred => ~PredHolds(j, e.flare, last.source, e.target)

\* C8's case: a merge whose flare and row satisfy predicates 1 and 5
C8_Witness ==
    \E e \in LogEntries :
        /\ IsMerge(e)
        /\ Pred1(e.flare, e.target)
        /\ Pred5(e.flare, e.target)
        /\ e.pred = 1

\* a store_flares call of one flare has just ended
StoredOne == last'.op = "store_flares" /\ steps' = steps + 1 /\ Len(last'.log) = 1

\* the NOAA rows a LMSAL flare f reconciles with: same date, a start time,
\* magnitude within 0.2, and the peak of f within 2 minutes of that time
VagueTwins(rows, f) ==
    {v \in rows :
        /\ v.source = "NOAA" /\ v.event_date = f.event_date
        /\ Known(v.event_timestamp) /\ Known(f.peak_time)
        /\ WithinTolerance(f.flare_class, v.flare_class)
        /\ Abs(PeakInstant(f.event_date, f.peak_time) - v.event_timestamp) <= 2 * 60}

\* C6 (cross-source reconciliation): with one NOAA row of a date stored, a
\* LMSAL flare of that date with a region, magnitude within 0.2 and peak
\* within 2 minutes of the row's time leaves one row, which has the LMSAL
\* flare's flare_class and region and source LMSAL, whatever its start time.
C6_Reconciliation ==
    [][(StoredOne /\ last'.source = "LMSAL") =>
          LET f == last'.log[1].flare
          IN  \A v \in VagueTwins(flares, f) :
                 (flares = {v} /\ f.region # None) =>
                     /\ Cardinality(flares') = 1
                     /\ \A r \in flares' :
                           /\ r.flare_class = f.flare_class
                           /\ r.region = f.region
                           /\ r.source = "LMSAL"]_vars

\* C7 (one record per event): the store never holds two rows with the same
\* class letter, magnitudes within 0.2 of each other and start timestamps
\* both known and within 5 minutes of each other.
C7_OneRecordPerEvent ==
    \A r1, r2 \in flares :
        (/\ r1.id # r2.id
         /\ WithinTolerance(r1.flare_class, r2.flare_class)
         /\ Known(r1.event_timestamp) /\ Known(r2.event_timestamp)
         /\ Abs(r1.event_timestamp - r2.event_timestamp) <= 5 * 60) => FALSE

\* the rows an incoming flare f of a source matches: magnitude-eligible and
\* satisfying one of the five predicates
Matchable(rows, f, source) ==
    {r \in rows : /\ WithinTolerance(f.flare_class, r.flare_class)
                  /\ \E k \in 1..5 : PredHolds(k, f, source, r)}

\* C9 (match or insert): store_flares merges an incoming flare into an
\* existing row if and only if some magnitude-eligible row satisfies one of
\* the five predicates; otherwise it inserts exactly one new row; the flare
\* is never dropped.
C9_MatchOrInsert ==
    [][StoredOne =>
          LET e == last'.log[1]
              found == Matchable(flares, e.flare, last'.source) # {}
          IN  /\ IsMerge(e) <=> found
              /\ IsMerge(e) =>
                    /\ e.target \in flares
                    /\ flares' = (flares \ {e.target}) \cup {e.result}
              /\ IsInsert(e) =>
                    /\ e.result \notin flares
                    /\ \A r \in flares : r.id # e.result.id
                    /\ flares' = flares \cup {e.result}]_vars

\* a store_flares call has just ended
StoredBatch == last'.op = "store_flares" /\ steps' = steps + 1

\* C13 (precise overwrites vague): when a LMSAL flare merges into a row of
\* source NOAA, the row afterwards has the flare's flare_class and every
\* field the flare carries (region, location, event_time with
\* event_timestamp, peak_time, end_time), its source is LMSAL, and the
\* number of rows is unchanged.
C13_PreciseOverwrites ==
    [][(StoredOne /\ last'.source = "LMSAL") =>
          LET e == last'.log[1]
              f == e.flare
              r == e.result
          IN  (IsMerge(e) /\ e.target.source = "NOAA") =>
                 /\ r.flare_class = f.flare_class
                 /\ (f.region # None => r.region = f.region)
                 /\ (f.location # None => r.location = f.location)
                 /\ (Known(f.event_time) =>
                        /\ r.event_time = f.event_time
                        /\ (Known(f.event_timestamp) =>
                               r.event_timestamp = f.event_timestamp))
                 /\ (Known(f.peak_time) => r.peak_time = f.peak_time)
                 /\ (Known(f.end_time) => r.end_time = f.end_time)
                 /\ r.source = "LMSAL"
                 /\ r \in flares'
                 /\ Cardinality(flares') = Cardinality(flares)]_vars

\* C13's case: a LMSAL flare merged into a NOAA row whose region and
\* event_time were set to other values
C13_Witness ==
    \E e \in LogEntries :
        /\ IsMerge(e) /\ last.source = "LMSAL" /\ e.target.source = "NOAA"
        /\ e.target.region # None /\ e.flare.region # None
        /\ e.target.region # e.flare.region
        /\ Known(e.target.event_time) /\ Known(e.flare.event_time)
        /\ e.target.event_time # e.flare.event_time
        /\ e.result \in flares

\* the data fields of a flare row that both sides may carry
SetOnBoth(f, ex) ==
    [flare_class |-> TRUE,
     region |-> f.region # None /\ ex.region # None,
     location |-> f.location # None /\ ex.location # None,
     event_time |-> Known(f.event_time) /\ Known(ex.event_time),
     event_timestamp |-> Known(f.event_timestamp) /\ Known(ex.event_timestamp),
     peak_time |-> Known(f.peak_time) /\ Known(ex.peak_time),
     end_time |-> Known(f.end_time) /\ Known(ex.end_time)]
DataFields ==
    {"flare_class", "region", "location", "event_time", "event_timestamp",
     "peak_time", "end_time"}

\* C14 (equal precision prefers the newer value): when a flare merges into a
\* row of its own source and a field is set on both sides, the row holds the
\* flare's value of the field afterwards.
C14_NewerWins ==
    \A e \in LogEntries :
        (IsMerge(e) /\ e.target.source = last.source) =>
            \A k \in DataFields :
                SetOnBoth(e.flare, e.target)[k] => e.result[k] = e.flare[k]

\* C15 (new-counter accuracy): store_flares returns the number of rows it
\* inserted, which is the row count after minus the row count before; a
\* match that changes no data field leaves the matched row, scraped_at
\* included, as it was.
C15_NewCounter ==
    [][StoredBatch =>
          /\ last'.ret = Cardinality(flares') - Cardinality(flares)
          /\ last'.ret = Cardinality({i \in 1..Len(last'.log) : IsInsert(last'.log[i])})
          /\ \A i \in 1..Len(last'.log) :
                LET e == last'.log[i]
                IN  (IsMerge(e) /\ e.result.source = e.target.source
                       /\ \A k \in DataFields : e.result[k] = e.target[k])
                    => e.result = e.target]_vars

\* C15's case: an exact duplicate arrives at a later clock reading than the
\* one that stamped the row; nothing is counted
C15_Witness ==
    \E e \in LogEntries :
        /\ IsMerge(e)
        /\ e.result = e.target
        /\ e.target.scraped_at # now
        /\ e.target \in flares
        /\ last.ret = 0

----------------------------------------------------------------------------
(* Properties of the CME store *)

StoredCme == last.op = "store_cme"
AskedArrivals == last.op = "get_cmes_with_arrivals_in_window"
AskedPeriod == last.op = "get_cmes_for_period"

\* C3 (CME upsert idempotence): store_cme of the payload that the store_cme
\* before it stored leaves the number of rows of cmes_enhanced, cme_analyses,
\* cme_model_runs and cme_spacecraft_impacts as the first call left them.
C3_UpsertIdempotent ==
    (StoredCme /\ last.previous = last.payload) =>
        RowCounts(cmedb) = last.counts_before

\* the CMEs whose stored tree has a model run with an Earth arrival in the
\* inclusive interval [T0 - U, T1 + U], all in milliseconds
ArrivalIn(db, c, lo, hi) ==
    \E a \in AnalysesForCme(db, c.id) : \E m \in a.model_runs :
        /\ m.row.earth_arrival_timestamp # NULL
        /\ lo <= m.row.earth_arrival_timestamp * 1000
        /\ m.row.earth_arrival_timestamp * 1000 <= hi
Qualifying(db, window) ==
    {c \in db.cmes : ArrivalIn(db, c, window[1] - window[3] * 3600000,
                                      window[2] + window[3] * 3600000)}

\* C4 (arrival window): get_cmes_with_arrivals_in_window(T0, T1, U) returns
\* a CME if and only if its stored tree has a model run whose
\* earth_arrival_timestamp lies in [T0 - U, T1 + U]; a CME with no such run
\* is not returned, whatever its start_time.
C4_ArrivalWindow ==
    AskedArrivals => {r.row : r \in last.result} = Qualifying(cmedb, last.window)

\* the children of a payload and of a returned tree, as nested sets
PayloadRuns(enlilList) ==
    {[run_number |-> i, arrival |-> enlilList[i].arrival,
      impacts |-> {enlilList[i].impactList[k]
                     : k \in 1..Len(enlilList[i].impactList)}]
       : i \in 1..Len(enlilList)}
PayloadTree(cme_data) ==
    {[analysis_type |-> cme_data.cmeAnalyses[i].featureCode,
      measurement_time |-> cme_data.cmeAnalyses[i].time21_5,
      runs |-> PayloadRuns(cme_data.cmeAnalyses[i].enlilList)]
       : i \in 1..Len(cme_data.cmeAnalyses)}
ReturnedTree(analyses) ==
    {[analysis_type |-> a.row.analysis_type,
      measurement_time |-> a.row.measurement_time,
      runs |-> {[run_number |-> m.row.run_number,
                 arrival |-> m.row.earth_arrival_timestamp,
                 impacts |-> {i.spacecraft_name : i \in m.spacecraft_impacts}]
                  : m \in a.model_runs}]
       : a \in analyses}

\* C10 (children superseded with the parent): there is one CME row for each
\* activityID stored, and the tree a query returns for a CME is the analyses,
\* model runs and spacecraft impacts of the latest store_cme payload of its
\* activityID: none of an earlier payload, none of the latest missing.
C10_ChildrenSuperseded ==
    /\ \A id \in ActivityIds :
          latest[id] # NoPayload =>
              Cardinality({c \in cmedb.cmes : c.activity_id = id}) = 1
    /\ (AskedArrivals \/ AskedPeriod) =>
          \A r \in last.result :
              /\ ReturnedTree(r.analyses) = PayloadTree(latest[r.row.activity_id])
              /\ Cardinality(r.analyses) = Len(latest[r.row.activity_id].cmeAnalyses)

\* the rows a CME row owns in the tables, level by level
OwnedAnalyses(db, c) == {a \in db.analyses : a.cme_id = c.id}
OwnedRuns(db, a) == {m \in db.runs : m.analysis_id = a.id}
OwnedImpacts(db, m) == {i \in db.impacts : i.model_run_id = m.id}

\* C16 (arrival-window results carry the whole tree): a CME returned by
\* get_cmes_with_arrivals_in_window comes with all its stored analyses, all
\* model runs of each and all spacecraft impacts of each run, also those
\* whose Earth arrival is outside the expanded window or absent.
C16_WholeTree ==
    AskedArrivals =>
        \A r \in last.result :
            /\ {a.row : a \in r.analyses} = OwnedAnalyses(cmedb, r.row)
            /\ \A a \in r.analyses :
                  /\ {m.row : m \in a.model_runs} = OwnedRuns(cmedb, a.row)
                  /\ \A m \in a.model_runs :
                        m.spacecraft_impacts = OwnedImpacts(cmedb, m.row)

\* C16's case: a returned CME has an analysis without model runs, or a model
\* run whose arrival is outside the expanded window
C16_Witness ==
    /\ AskedArrivals
    /\ \E r \in last.result :
          /\ \E a \in r.analyses : a.model_runs = {}
          /\ \E a \in r.analyses : \E m \in a.model_runs :
                m.spacecraft_impacts # {}
    /\ \E r \in last.result : \E a \in r.analyses : \E m \in a.model_runs :
          m.row.earth_arrival_timestamp * 1000
             > last.window[2] + last.window[3] * 3600000

\* C17 (no orphans): every cme_analyses row refers to a cmes_enhanced row,
\* every cme_model_runs row to a cme_analyses row, every
\* cme_spacecraft_impacts row to a cme_model_runs row.
C17_NoOrphans ==
    /\ \A a \in cmedb.analyses : \E c \in cmedb.cmes : a.cme_id = c.id
    /\ \A m \in cmedb.runs : \E a \in cmedb.analyses : m.analysis_id = a.id
    /\ \A i \in cmedb.impacts : \E m \in cmedb.runs : i.model_run_id = m.id

\* a cleanup_old_flares call has just ended
CleanedUp == last'.op = "cleanup_old_flares" /\ steps' = steps + 1

\* the rows older than now - hours, the clock and the result in milliseconds
OlderThan(rows, clock, hours) ==
    {r \in rows : /\ r.event_timestamp # NULL
                  /\ r.event_timestamp * 1000 < clock - hours * 3600000}

\* C18 (retention exactness): cleanup_old_flares(hours) at clock value now
\* deletes every row whose event_timestamp is non-null and older than
\* now - hours, no row at or after that cutoff, changes no field of a row
\* that stays, and returns the number of rows deleted.
C18_RetentionExact ==
    [][CleanedUp =>
          /\ flares' = flares \ OlderThan(flares, last'.clock, last'.hours)
          /\ last'.ret = Cardinality(flares) - Cardinality(flares')]_vars

AskedFlares == last.op = "get_flares_for_report_period"

\* the rows whose start timestamp lies in [start, end], the period in
\* milliseconds
InPeriod(ts, period) == ts # NULL /\ period[1] <= ts * 1000 /\ ts * 1000 <= period[2]

\* a list is ordered most recent first
MostRecentFirst(timestamps) ==
    \A i, j \in 1..Len(timestamps) : i < j => timestamps[i] >= timestamps[j]

\* C19 (occurrence window): get_flares_for_report_period(start, end) returns
\* exactly the stored flares, and get_cmes_for_period(start, end) exactly the
\* stored CMEs, whose start timestamp lies in [start, end]; a flare without
\* event_timestamp is never returned; the lists are ordered most recent
\* first.
C19_OccurrenceWindow ==
    /\ AskedFlares =>
          /\ \A v \in {FlareView(r) : r \in flares} \cup
                      {last.listed[i] : i \in 1..Len(last.listed)} :
                Cardinality({i \in 1..Len(last.listed) : last.listed[i] = v})
                  = Cardinality({r \in flares :
                                   /\ FlareView(r) = v
                                   /\ InPeriod(r.event_timestamp, last.period)})
          /\ \A i \in 1..Len(last.listed) : last.listed[i].event_timestamp # NULL
          /\ MostRecentFirst([i \in 1..Len(last.listed) |-> last.listed[i].event_timestamp])
    /\ AskedPeriod =>
          /\ {last.listed[i].row : i \in 1..Len(last.listed)}
                = {c \in cmedb.cmes : InPeriod(c.start_timestamp, last.period)}
          /\ Len(last.listed) = Cardinality(last.result)
          /\ MostRecentFirst([i \in 1..Len(last.listed)
                                 |-> last.listed[i].row.start_timestamp])

RanCycle == last.op = "scrape_and_update"

\* the source contributed at least one parsed flare
Contributed(fetch) == fetch.fetched /\ Len(fetch.flares) >= 1

\* the sources that contributed, in the order the cycle asks them
Contributors(lmsal, noaa) ==
    (IF Contributed(lmsal) THEN <<"LMSAL">> ELSE <<>>)
    \o (IF Contributed(noaa) THEN <<"NOAA">> ELSE <<>>)

\* the flares of the contributing sources, in the order they are stored
ContributedFlares(lmsal, noaa) ==
    (IF Contributed(lmsal) THEN lmsal.flares ELSE <<>>)
    \o (IF Contributed(noaa) THEN noaa.flares ELSE <<>>)

ChildWriteFails(cme_data) ==
    /\ cme_data.startTime # BadTime
    /\ \E i \in 1..Len(cme_data.cmeAnalyses) :
          \E j \in 1..Len(cme_data.cmeAnalyses[i].enlilList) :
             cme_data.cmeAnalyses[i].enlilList[j].arrival = BadTime

\* the rows of the four tables
Committed(db) == <<db.cmes, db.analyses, db.runs, db.impacts>>

\* C12 (all or nothing): when writing an analysis, a model run or an impact
\* of the payload fails, store_cme commits no row of the payload, leaves the
\* tree stored for the activityID as it was, and reports failure (None).
C12_AllOrNothing ==
    [][(/\ last'.op = "store_cme"
        /\ steps' = steps + 1
        /\ ChildWriteFails(last'.payload)) =>
          /\ Committed(cmedb') = Committed(cmedb)
          /\ last'.ret = NULL]_vars

\* what the query returns: the CMEs listed, each with the rows read for it
ReaderResult ==
    {[row |-> c, analyses |-> AnalysesForCme(reader, c.id)] : c \in reader.cmes}

\* what the query returns when nothing is written while it runs
Answer(db) ==
    IF reader.query = "get_cmes_for_period"
    THEN CmesForPeriod(db, reader.args[1], reader.args[2])
    ELSE ArrivalsInWindow(db, reader.args[1], reader.args[2], reader.args[3])

\* C11 (reader atomicity): a query running beside store_cme returns what one
\* committed state of the store holds, the state before an upsert or the
\* state after it; it never returns a CME with a part of a tree.  (Flares
\* are read by one SELECT and a batch of store_flares is committed once.)
C11_ReaderAtomicity ==
    ReaderDone => \E db \in reader.seen : ReaderResult = Answer(db)

\* a step that is one run of scrape_and_update
Cycled == last'.op = "scrape_and_update" /\ steps' = steps + 1

\* C30 (a failed cycle changes nothing): when neither LMSAL nor NOAA gives a
\* usable flare, scrape_and_update returns success False with an error
\* message and leaves the flare store as it was: no row inserted, merged or
\* deleted, retention not run.
C30_FailedCycleNoChange ==
    [][(Cycled /\ ~Contributed(last'.lmsal) /\ ~Contributed(last'.noaa)) =>
          /\ last'.ret.success = FALSE
          /\ last'.ret.error # ""
          /\ flares' = flares
          /\ nextFlareId' = nextFlareId
          /\ last'.log = <<>>]_vars

\* a failed cycle over a store that holds a flare retention would delete
C30_Witness ==
    /\ RanCycle
    /\ ~last.ret.success
    /\ last.lmsal.fetched
    /\ ~last.noaa.fetched
    /\ \E r \in flares : /\ r.event_timestamp # NULL
                         /\ r.event_timestamp < Cutoff(last.clock, RetentionHours)

\* C27 (retention follows ingestion): in a successful cycle the LMSAL batch
\* is ingested before the NOAA batch and retention runs after both, so when
\* the cycle returns no stored flare has a non-null event_timestamp older
\* than 24 hours before the cleanup instant, flares inserted in the same
\* cycle included, and the summary is read after the cleanup.
C27_RetentionAfterIngestion ==
    (RanCycle /\ last.ret.success) =>
       /\ \A i \in 1..Len(last.log) :
             last.log[i].flare = ContributedFlares(last.lmsal, last.noaa)[i]
       /\ OlderThan(flares, last.clock, RetentionHours) = {}
       /\ last.ret.current_total
             = Cardinality(flares \ OlderThan(flares, last.clock, RetentionHours))

\* the start timestamp of the incoming flare or of the stored row is unknown
UnknownTimestamp(e) ==
    e.flare.event_timestamp = NULL \/ e.target.event_timestamp = NULL

C25_TieBreak ==
    [][(StoredOne /\ IsMerge(last'.log[1])) =>
          LET e == last'.log[1]
          IN  /\ e.target \in Matchable(flares, e.flare, last'.source)
              /\ \A r \in Matchable(flares, e.flare, last'.source) :
                    r.event_timestamp <= e.target.event_timestamp
              /\ flares' \ {e.result} = flares \ {e.target}]_vars

\* which data fields of a row are set
FieldsSet(r) ==
    [flare_class |-> TRUE,
     region |-> r.region # None,
     location |-> r.location # None,
     event_time |-> Known(r.event_time),
     event_timestamp |-> Known(r.event_timestamp),
     peak_time |-> Known(r.peak_time),
     end_time |-> Known(r.end_time)]

\* C26 (merge in place): a merge changes the matched row only, keeps the
\* number of rows, keeps the row's id, event_date and raw_text, never turns
\* a set field into an empty one, and leaves every other row as it was.
C26_MergeInPlace ==
    [][(StoredOne /\ IsMerge(last'.log[1])) =>
          /\ Cardinality(flares') = Cardinality(flares)
          /\ \E t \in flares : \E r \in flares' :
                /\ t.id = last'.log[1].target.id
                /\ r.id = t.id
                /\ flares' \ {r} = flares \ {t}
                /\ r.event_date = t.event_date
                /\ r.raw_text = t.raw_text
                /\ \A k \in DataFields : FieldsSet(t)[k] => FieldsSet(r)[k]]_vars

\* a merge rewrote fields of a row that had a region, beside another row
C26_Witness ==
    /\ StoredFlares
    /\ Cardinality(flares) >= 2
    /\ \E e \in LogEntries :
          /\ IsMerge(e)
          /\ e.result # e.target
          /\ e.target.region # None
          /\ e.flare.region = None
          /\ e.result \in flares

\* the step stores the batch the latest operation stored, from the same
\* source, and the flare of the batch carries an event_timestamp
StoredAgain ==
    /\ StoredOne
    /\ StoredFlares
    /\ Len(last.log) = 1
    /\ last'.source = last.source
    /\ last'.log[1].flare = last.log[1].flare
    /\ Known(last'.log[1].flare.event_timestamp)

\* C29 (re-ingest idempotence): store_flares called again with the same
\* batch and source, nothing written in between, inserts no row, returns 0
\* and changes no field of any row, when every flare of the batch carries an
\* event_timestamp.
C29_ReingestIdempotent ==
    [][StoredAgain => (flares' = flares /\ last'.ret = 0)]_vars

\* the flare class a ranks above b: X over M over C over any other letter,
\* then the larger magnitude
ClassRank(letter) ==
    IF letter = "X" THEN 3 ELSE IF letter = "M" THEN 2
    ELSE IF letter = "C" THEN 1 ELSE 0
RanksAbove(a, b) ==
    \/ ClassRank(a.letter) > ClassRank(b.letter)
    \/ ClassRank(a.letter) = ClassRank(b.letter) /\ a.mag > b.mag

\* C23 (strongest-flare total order): the strongest_flare of
\* get_flares_summary is a flare of the 24-hour list that no flare of the
\* list ranks above, under "X over M over C over any other letter, then the
\* larger magnitude", and it is None exactly when the list is empty.
C23_StrongestTotalOrder ==
    last.op = "get_flares_summary" =>
       LET listed == last.ret.flares_list
           strongest == last.ret.strongest_flare
       IN  /\ strongest = <<>> <=> listed = <<>>
           /\ strongest # <<>> =>
                 /\ \E i \in 1..Len(listed) : listed[i] = strongest[1]
                 /\ \A i \in 1..Len(listed) :
                       ~RanksAbove(listed[i].flare_class, strongest[1].flare_class)

\* a record store_cme can store: its startTime parses and its cmeAnalyses is
\* a list
Storable(cme_data) ==
    cme_data.startTime # BadTime /\ "cmeAnalyses" \notin NullKeys(cme_data)

\* C21 (per-record error isolation), for sync_cmes: a record on which
\* store_cme fails does not keep a later record of the list from being
\* stored, so every storable record of the list is stored, and the call
\* returns the number of records stored.
C21_PerRecordIsolation ==
    last.op = "sync_cmes" =>
       /\ \A i \in 1..Len(last.cmes) :
             Storable(last.cmes[i]) => last.results[i] # NULL
       /\ last.ret = Cardinality({i \in 1..Len(last.cmes) : last.results[i] # NULL})

\* C22 (structured result, never an exception): whatever happens during a
\* cycle, the store being busy included, scrape_and_update returns a dict
\* with the success flag, and with the counts of new and deleted records and
\* the sources that succeeded when the cycle succeeded; no exception escapes.
C22_StructuredResult ==
    RanCycle =>
       /\ "raised" \notin DOMAIN last.ret
       /\ "success" \in DOMAIN last.ret
       /\ last.ret.success =>
             {"new_flares", "deleted_old", "sources_used"} \subseteq DOMAIN last.ret

\* the columns of a row but its id and scraped_at
Content(r) ==
    [event_date |-> r.event_date, event_time |-> r.event_time,
     event_timestamp |-> r.event_timestamp, flare_class |-> r.flare_class,
     region |-> r.region, location |-> r.location, peak_time |-> r.peak_time,
     end_time |-> r.end_time, source |-> r.source, raw_text |-> r.raw_text]

\* C28 (no duplicate under concurrent cycles): when two cycles store the
\* same candidate at once, whatever the order of their lookups, writes and
\* commits, the store holds one row for it: no two rows with the same
\* content.
C28_NoDuplicateConcurrent ==
    \A r, t \in flares : Content(r) = Content(t) => r.id = t.id

====
